---- MODULE Spec2Model ----
(***************************************************************************)
(* Verification model of yt-digest (src/app.py).                           *)
(*                                                                         *)
(* Python strings that the program inspects character by character (the   *)
(* search input, URL components, the sp token) are sequences of            *)
(* one-character strings.  Opaque texts (titles, transcript segments,      *)
(* video ids, sort orders) are TLA+ strings.                               *)
(***************************************************************************)
EXTENDS Integers, Sequences, FiniteSets, TLC

VARIABLES
    pc,               \* "idle", "decoded", "parsed", or a place in get_recent_transcripts
    decoded,          \* the completed call of decode_sp_parameter: argument, result
    parsed,           \* the completed call of parse_youtube_search_input
    keyword,          \* get_recent_transcripts: argument keyword
    limit,            \* get_recent_transcripts: argument limit
    search_query,     \* local search_query
    sort_by,          \* local sort_by
    calls,            \* calls made to the scrapetube library, in order
    transcript_api,   \* local transcript_api
    video,            \* loop variable video: the descriptor the search yielded
    videos_processed, \* local videos_processed
    results_data,     \* local results_data
    cur,              \* what the transcript service did for the last video
    log,              \* per processed video: its id and where its transcript failed
    exc,              \* the exception that left get_recent_transcripts
    ret,              \* the list get_recent_transcripts returned
    digest,           \* the call of generate_newsletter_digest
    mail,             \* the call of send_newsletter_resend
    config,           \* the call of load_email_list_config
    legacy,           \* main.py: the locals of its get_recent_transcripts
    run               \* app.py run as a script: the locals of the main block

vars == <<pc, decoded, parsed, keyword, limit, search_query, sort_by, calls,
          transcript_api, video, videos_processed, results_data, cur, log,
          exc, ret, digest, mail, config, legacy, run>>

None == "None"

(***************************************************************************)
(* Bounds                                                                  *)
(***************************************************************************)
MaxTokLen == 3     \* sp tokens enumerated up to this length
MaxParams == 2     \* query-string parameters per enumerated input
MaxVideos == 2     \* videos the search collaborator yields per call
MaxLimit == 1      \* largest limit argument
MaxItems == 2      \* transcripts per list given to generate_newsletter_digest
MaxRecipients == 2 \* addresses per recipients list
MaxEntries == 2    \* elements per configuration array

(***************************************************************************)
(* str helpers                                                             *)
(***************************************************************************)
StartsWith(s, prefix) ==
    Len(s) >= Len(prefix) /\ SubSeq(s, 1, Len(prefix)) = prefix

Contains(s, sub) ==
    \E i \in 1..(Len(s) - Len(sub) + 1) : SubSeq(s, i, i + Len(sub) - 1) = sub

\* index of the first character of s that is in chars, 0 when there is none
Find(s, chars) ==
    IF \E i \in 1..Len(s) : s[i] \in chars
    THEN CHOOSE i \in 1..Len(s) :
             s[i] \in chars /\ \A j \in 1..(i - 1) : s[j] \notin chars
    ELSE 0

RECURSIVE Replace(_, _, _)
Replace(s, old, new) ==
    IF s = <<>> THEN <<>>
    ELSE <<IF Head(s) = old THEN new ELSE Head(s)>> \o Replace(Tail(s), old, new)

RECURSIVE Split(_, _)
Split(s, sep) ==
    LET i == Find(s, {sep})
    IN  IF i = 0 THEN <<s>>
        ELSE <<SubSeq(s, 1, i - 1)>> \o Split(SubSeq(s, i + 1, Len(s)), sep)

RECURSIVE LStrip(_, _)
LStrip(s, chars) ==
    IF s # <<>> /\ Head(s) \in chars THEN LStrip(Tail(s), chars) ELSE s

RECURSIVE Join(_, _)
Join(parts, sep) ==
    IF parts = <<>> THEN ""
    ELSE IF Len(parts) = 1 THEN parts[1]
    ELSE parts[1] \o sep \o Join(Tail(parts), sep)

Letters ==
    {"a", "b", "c", "d", "e", "f", "g", "h", "i", "j", "k", "l", "m",
     "n", "o", "p", "q", "r", "s", "t", "u", "v", "w", "x", "y", "z",
     "A", "B", "C", "D", "E", "F", "G", "H", "I", "J", "K", "L", "M",
     "N", "O", "P", "Q", "R", "S", "T", "U", "V", "W", "X", "Y", "Z"}

Digits == {"0", "1", "2", "3", "4", "5", "6", "7", "8", "9"}

HexUpper ==
    <<"0", "1", "2", "3", "4", "5", "6", "7", "8", "9", "A", "B", "C", "D", "E", "F">>

HexLower ==
    <<"0", "1", "2", "3", "4", "5", "6", "7", "8", "9", "a", "b", "c", "d", "e", "f">>

IsHex(c) == \E i \in 1..16 : HexUpper[i] = c \/ HexLower[i] = c

HexVal(c) == (CHOOSE i \in 1..16 : HexUpper[i] = c \/ HexLower[i] = c) - 1

\* the printable ASCII characters, code 32 first
Ascii ==
    <<" ", "!", "<quote>", "#", "$", "%", "&", "'", "(", ")", "*", "+", ",", "-", ".", "/",
      "0", "1", "2", "3", "4", "5", "6", "7", "8", "9", ":", ";", "<", "=", ">", "?",
      "@", "A", "B", "C", "D", "E", "F", "G", "H", "I", "J", "K", "L", "M", "N", "O",
      "P", "Q", "R", "S", "T", "U", "V", "W", "X", "Y", "Z", "[", "<backslash>", "]", "^", "_",
      "<backtick>", "a", "b", "c", "d", "e", "f", "g", "h", "i", "j", "k", "l", "m", "n", "o",
      "p", "q", "r", "s", "t", "u", "v", "w", "x", "y", "z", "{", "|", "}", "~">>

\* one decoded byte as a character; a byte that is not ASCII and stands
\* alone decodes (errors='replace') to U+FFFD
ByteChar(b) ==
    IF b >= 32 /\ b <= 126 THEN Ascii[b - 31]
    ELSE IF b >= 128 THEN "U+FFFD"
    ELSE "<byte " \o ToString(b) \o ">"

(***************************************************************************)
(* urllib.parse, as app.py uses it                                         *)
(***************************************************************************)
\* unquote: every %XX with two hex digits becomes the character of that
\* byte, any other '%' stays
RECURSIVE unquote(_)
unquote(s) ==
    IF s = <<>> THEN <<>>
    ELSE IF s[1] = "%" /\ Len(s) >= 3 /\ IsHex(s[2]) /\ IsHex(s[3])
         THEN <<ByteChar(16 * HexVal(s[2]) + HexVal(s[3]))>>
                  \o unquote(SubSeq(s, 4, Len(s)))
         ELSE <<s[1]>> \o unquote(Tail(s))

\* parse_qsl with the defaults (keep_blank_values=False, separator '&'):
\* the (name, value) pairs in order; a field without '=' or with an empty
\* value is dropped
RECURSIVE qsl_fields(_)
qsl_fields(fields) ==
    IF fields = <<>> THEN <<>>
    ELSE LET name_value == Head(fields)
             i == Find(name_value, {"="})
             name == SubSeq(name_value, 1, i - 1)
             value == SubSeq(name_value, i + 1, Len(name_value))
         IN  (IF name_value = <<>> \/ i = 0 \/ value = <<>>
              THEN <<>>
              ELSE << <<unquote(Replace(name, "+", " ")),
                        unquote(Replace(value, "+", " "))>> >>)
             \o qsl_fields(Tail(fields))

parse_qsl(qs) == IF qs = <<>> THEN <<>> ELSE qsl_fields(Split(qs, "&"))

\* parse_qs(qs).get(key): the values of key in order, <<>> when key is absent
RECURSIVE values_of(_, _)
values_of(pairs, key) ==
    IF pairs = <<>> THEN <<>>
    ELSE (IF Head(pairs)[1] = key THEN <<Head(pairs)[2]>> ELSE <<>>)
         \o values_of(Tail(pairs), key)

parse_qs_get(qs, key) == values_of(parse_qsl(qs), key)

\* urlparse(url).query, or the ValueError urlsplit raises for a netloc with
\* an unbalanced or invalid bracketed host
urlparse(url0) ==
    LET url1 == LStrip(url0, {" "})
        i == Find(url1, {":"})
        has_scheme == /\ i > 0
                      /\ url1[1] \in Letters
                      /\ \A j \in 1..(i - 1) :
                             url1[j] \in Letters \cup Digits \cup {"+", "-", "."}
        url2 == IF has_scheme THEN SubSeq(url1, i + 1, Len(url1)) ELSE url1
        has_netloc == StartsWith(url2, <<"/", "/">>)
        after == SubSeq(url2, 3, Len(url2))
        d == Find(after, {"/", "?", "#"})
        netloc == IF d = 0 THEN after ELSE SubSeq(after, 1, d - 1)
        url3 == IF ~has_netloc THEN url2
                ELSE IF d = 0 THEN <<>> ELSE SubSeq(after, d, Len(after))
        h == Find(url3, {"#"})
        url4 == IF h = 0 THEN url3 ELSE SubSeq(url3, 1, h - 1)
        q == Find(url4, {"?"})
        query == IF q = 0 THEN <<>> ELSE SubSeq(url4, q + 1, Len(url4))
    IN  IF has_netloc /\ (Contains(netloc, <<"[">>) \/ Contains(netloc, <<"]">>))
        THEN [raised |-> TRUE, exc |-> "ValueError", query |-> <<>>]
        ELSE [raised |-> FALSE, exc |-> None, query |-> query]

(***************************************************************************)
(* decode_sp_parameter                                                     *)
(***************************************************************************)
sort_by_reverse_map_mut_swapped ==
    [c \in {"A", "I", "M", "E"} |->
        CASE c = "A" -> "relevance"
          [] c = "I" -> "upload_date"
          [] c = "M" -> "rating"
          [] c = "E" -> "view_count"]

sort_by_reverse_map ==
    [c \in {"A", "I", "M", "E"} |->
        CASE c = "A" -> "relevance"
          [] c = "I" -> "upload_date"
          [] c = "M" -> "view_count"
          [] c = "E" -> "rating"]

\* For a str argument no statement of the try body can raise, so the
\* handler of line 60 is not entered.
decode_sp_parameter_mut_unknown_code(sp_param) ==
    IF StartsWith(sp_param, <<"C", "A">>) /\ Len(sp_param) > 2
    THEN LET sort_by_code == sp_param[3]
         IN  IF sort_by_code \in DOMAIN sort_by_reverse_map
             THEN sort_by_reverse_map[sort_by_code]
             ELSE sort_by_code
    ELSE None

decode_sp_parameter(sp_param) ==
    IF StartsWith(sp_param, <<"C", "A">>) /\ Len(sp_param) > 2
    THEN LET sort_by_code == sp_param[3]
         IN  IF sort_by_code \in DOMAIN sort_by_reverse_map
             THEN sort_by_reverse_map[sort_by_code]
             ELSE None
    ELSE None

(***************************************************************************)
(* parse_youtube_search_input                                              *)
(***************************************************************************)
\* line 98: the input looks like a URL
is_url_input_mut_scheme_only(search_input) ==
    Contains(search_input, <<":", "/", "/">>)

is_url_input(search_input) ==
    \/ Contains(search_input, <<":", "/", "/">>)
    \/ StartsWith(search_input, <<"w", "w", "w", ".">>)

\* line 105: query_params.get("search_query", [search_input])[0]
extract_search_query_mut_no_fallback(query, search_input) ==
    LET values == parse_qs_get(query, <<"s", "e", "a", "r", "c", "h", "_", "q", "u", "e", "r", "y">>)
    IN  IF values = <<>> THEN <<>> ELSE values[1]

extract_search_query(query, search_input) ==
    LET values == parse_qs_get(query, <<"s", "e", "a", "r", "c", "h", "_", "q", "u", "e", "r", "y">>)
    IN  IF values = <<>> THEN search_input ELSE values[1]

\* lines 108-116: sp_param = query_params.get("sp", [None])[0], decoded when
\* it is truthy
extract_sort_by_mut_last_sp(query) ==
    LET values == parse_qs_get(query, <<"s", "p">>)
    IN  IF values = <<>> THEN None
        ELSE decode_sp_parameter(values[Len(values)])

extract_sort_by(query) ==
    LET values == parse_qs_get(query, <<"s", "p">>)
    IN  IF values = <<>> THEN None
        ELSE IF values[1] # <<>> THEN decode_sp_parameter(values[1])
        ELSE None

\* lines 120-123: the handler of any exception raised while parsing
parse_on_exception_mut_reraise(search_input) ==
    [search_query |-> search_input, sort_by |-> None,
     branch |-> "except", raised |-> TRUE]

parse_on_exception(search_input) ==
    [search_query |-> search_input, sort_by |-> None,
     branch |-> "except", raised |-> FALSE]

parse_youtube_search_input(search_input) ==
    IF is_url_input(search_input)
    THEN LET parsed_url == urlparse(search_input)
         IN  IF parsed_url.raised
             THEN parse_on_exception(search_input)
             ELSE [search_query |-> extract_search_query(parsed_url.query, search_input),
                   sort_by |-> extract_sort_by(parsed_url.query),
                   branch |-> "url", raised |-> FALSE]
    ELSE [search_query |-> search_input, sort_by |-> None,
          branch |-> "keyword", raised |-> FALSE]

(***************************************************************************)
(* Inputs of the pure functions                                            *)
(***************************************************************************)
RECURSIVE TokensOfLen(_)
TokensOfLen(n) ==
    IF n = 0 THEN {<<>>}
    ELSE {Append(t, c) : t \in TokensOfLen(n - 1),
                         c \in {"C", "A", "I", "M", "E", "X"}}

\* the tokens of tests/test_url_parsing.py, and near misses of the prefix
TestTokens ==
    {<<"C", "A", "A", "S", "B", "A", "g", "C", "E", "A", "E", "=">>,   \* 'CAASBAgCEAE='
     <<"C", "A", "I", "S", "A", "h", "A", "B">>,   \* 'CAISAhAB'
     <<"C", "A", "M", "S", "A", "h", "A", "B">>,   \* 'CAMSAhAB'
     <<"C", "A", "E", "S", "A", "h", "A", "B">>,   \* 'CAESAhAB'
     <<"C", "A", "X", "S", "A", "h", "A", "B">>,   \* 'CAXSAhAB'
     <<"I", "N", "V", "A", "L", "I", "D">>,   \* 'INVALID'
     <<"E", "g", "Q", "I", "B", "B", "A", "B">>,   \* 'EgQIBBAB'
     <<"c", "a", "I">>,   \* 'caI'
     <<"A", "C", "A">>}   \* 'ACA'

DecodeTokens == TestTokens \cup UNION {TokensOfLen(n) : n \in 0..MaxTokLen}

\* what an input starts with: keywords, URLs, and a URL urlsplit rejects
Bases ==
    {<<>>,   \* ''
     <<"n", "e", "w", "s">>,   \* 'news'
     <<"C", "+", "+", " ", "x">>,   \* 'C++ x'
     <<"x", " ", "w", "w", "w", ".">>,   \* 'x www.'
     <<"h", ":", "/", "/", "x", "/", "r">>,   \* 'h://x/r'
     <<"w", "w", "w", ".", "x", "/", "r">>,   \* 'www.x/r'
     <<"a", ":", "/", "/", "[", "b">>}   \* 'a://[b'

\* the fields of a query string
Params ==
    {<<"s", "e", "a", "r", "c", "h", "_", "q", "u", "e", "r", "y", "=", "n", "e", "w", "s">>,   \* 'search_query=news'
     <<"s", "e", "a", "r", "c", "h", "_", "q", "u", "e", "r", "y", "=", "a", "+", "b", "%", "3", "D">>,   \* 'search_query=a+b%3D'
     <<"s", "e", "a", "r", "c", "h", "_", "q", "u", "e", "r", "y", "=">>,   \* 'search_query='
     <<"s", "e", "a", "r", "c", "h", "_", "q", "u", "e", "r", "y">>,   \* 'search_query'
     <<"s", "p", "=", "C", "A", "I">>,   \* 'sp=CAI'
     <<"s", "p", "=", "C", "A", "A", "S", "B", "A", "g", "C", "E", "A", "E", "%", "3", "D">>,   \* 'sp=CAASBAgCEAE%3D'
     <<"s", "p", "=", "C", "A", "X">>,   \* 'sp=CAX'
     <<"s", "p", "=">>,   \* 'sp='
     <<"o", "t", "h", "e", "r", "=", "v">>}   \* 'other=v'

\* what an input ends with
Fragments ==
    {<<>>,   \* ''
     <<"#", "?", "s", "p", "=", "C", "A", "M">>}   \* '#?sp=CAM'

RECURSIVE JoinFields(_)
JoinFields(fields) ==
    IF Len(fields) = 1 THEN fields[1]
    ELSE fields[1] \o <<"&">> \o JoinFields(Tail(fields))

QueryStrings ==
    {<<>>} \cup
    {<<"?">> \o JoinFields(fields) :
        fields \in UNION {[1..n -> Params] : n \in 1..MaxParams}}

ParseInputs == {b \o q \o f : b \in Bases, q \in QueryStrings, f \in Fragments}

(***************************************************************************)
(* State machine                                                           *)
(***************************************************************************)
\* Every variable keeps one shape in all states; pc tells which of them
\* carry a value.
NoDecode == [arg |-> <<>>, ret |-> None]

NoParse ==
    [arg |-> <<>>,
     ret |-> [search_query |-> <<>>, sort_by |-> None,
              branch |-> "keyword", raised |-> FALSE]]

NoVideo == [videoId |-> None, title |-> None]

NoCur == [video_id |-> None, list |-> None, tracks |-> <<>>, fetch |-> None]

NoDigest ==
    [api_key |-> None, json_data |-> <<>>, model |-> None, clients |-> <<>>,
     user_prompt |-> <<>>, requests |-> <<>>, outcome |-> None,
     exc |-> None, ret |-> ""]

NoMail ==
    [api_key |-> None, from_env |-> None, subject |-> "", body |-> "",
     recipients |-> <<>>, resend_api_key |-> None, rendered |-> <<>>,
     html_body |-> "", requests |-> <<>>, response |-> None, exc |-> None,
     warning |-> None]

NoConfig == [content |-> None, elements |-> <<>>, entries |-> <<>>, exc |-> None]

NoLegacy ==
    [pc |-> "idle", calls |-> <<>>, transcript_api |-> None,
     videos_processed |-> 0, results_data |-> <<>>, exc |-> None, ret |-> <<>>]

\* steps: the calls of the main block that have returned; exit_status is -1
\* while the script runs
NoRun ==
    [keyword |-> None, data |-> <<>>, steps |-> <<>>, digest_calls |-> <<>>,
     newsletter |-> None, recipient |-> None, api_key |-> None,
     mail_calls |-> <<>>, exc |-> None, exit_status |-> -1]

Init ==
    /\ pc = "idle"
    /\ decoded = NoDecode
    /\ parsed = NoParse
    /\ keyword = <<>>
    /\ limit = 0
    /\ search_query = <<>>
    /\ sort_by = None
    /\ calls = <<>>
    /\ transcript_api = None
    /\ video = NoVideo
    /\ videos_processed = 0
    /\ results_data = <<>>
    /\ cur = NoCur
    /\ log = <<>>
    /\ exc = None
    /\ ret = <<>>
    /\ digest = NoDigest
    /\ mail = NoMail
    /\ config = NoConfig
    /\ legacy = NoLegacy
    /\ run = NoRun

svc_vars == <<digest, mail, config, run>>

grt_vars == <<keyword, limit, search_query, sort_by, calls, transcript_api,
              video, videos_processed, results_data, cur, log, exc, ret>>

\* a caller applies decode_sp_parameter to a token
CallDecode ==
    /\ pc = "idle"
    /\ \E sp_param \in DecodeTokens :
           decoded' = [arg |-> sp_param, ret |-> decode_sp_parameter(sp_param)]
    /\ pc' = "decoded"
    /\ UNCHANGED <<parsed, grt_vars, svc_vars, legacy>>

\* a caller applies parse_youtube_search_input to an input
CallParse ==
    /\ pc = "idle"
    /\ \E search_input \in ParseInputs :
           parsed' = [arg |-> search_input,
                      ret |-> parse_youtube_search_input(search_input)]
    /\ pc' = "parsed"
    /\ UNCHANGED <<decoded, grt_vars, svc_vars, legacy>>

NextParse ==
    \/ CallDecode
    \/ CallParse

SpecParse == Init /\ [][NextParse]_vars

(***************************************************************************)
(* get_recent_transcripts                                                  *)
(***************************************************************************)
\* the search inputs get_recent_transcripts is called with
Keywords ==
    {<<"t", "e", "s", "t", " ", "k", "e", "y", "w", "o", "r", "d">>,
     <<"h", "t", "t", "p", "s", ":", "/", "/", "w", "w", "w", ".", "y", "o", "u", "t", "u", "b", "e", ".", "c", "o", "m", "/", "r", "e", "s", "u", "l", "t", "s", "?", "s", "e", "a", "r", "c", "h", "_", "q", "u", "e", "r", "y", "=", "n", "e", "w", "s", "&", "s", "p", "=", "C", "A", "I", "S", "A", "h", "A", "B">>,
     <<"h", "t", "t", "p", "s", ":", "/", "/", "w", "w", "w", ".", "y", "o", "u", "t", "u", "b", "e", ".", "c", "o", "m", "/", "r", "e", "s", "u", "l", "t", "s", "?", "s", "e", "a", "r", "c", "h", "_", "q", "u", "e", "r", "y", "=", "n", "e", "w", "s">>,
     <<"h", "t", "t", "p", "s", ":", "/", "/", "w", "w", "w", ".", "y", "o", "u", "t", "u", "b", "e", ".", "c", "o", "m", "/", "r", "e", "s", "u", "l", "t", "s", "?", "s", "p", "=", "C", "A", "X", "S", "A", "h", "A", "B">>}

\* lines 174-175: if not sort_by: sort_by = "relevance"
default_sort_by_mut_upload_date(sort) ==
    IF sort = None THEN "upload_date" ELSE sort

default_sort_by_mut_keep_none(sort) == sort

default_sort_by(sort) == IF sort = None THEN "relevance" ELSE sort

\* line 179: the one call into the search library
get_search_call(query, lim, sort) ==
    [fn |-> "get_search", query |-> query, limit |-> lim,
     sort_by |-> sort, results_type |-> "video"]

\* the title structures of a video descriptor: complete, {} for title,
\* [] for runs, None for title
TitleShapes == {"ok", "title_empty_dict", "runs_empty", "title_none"}

VideoId(n) == "vid_" \o ToString(n)

TitleText(video_id) == "Title of " \o video_id

\* lines 187-190: video["title"]["runs"][0]["text"], with KeyError and
\* IndexError handled; subscripting None raises TypeError, which is not
extract_title(v) ==
    CASE v.title = "ok" ->
             [raised |-> FALSE, exc |-> None, title |-> TitleText(v.videoId)]
      [] v.title \in {"title_empty_dict", "runs_empty"} ->
             [raised |-> FALSE, exc |-> None, title |-> "Unknown Title"]
      [] OTHER ->
             [raised |-> TRUE, exc |-> "TypeError", title |-> None]

\* what the transcript service does for one video: the outcome of list(),
\* the language codes of the tracks in listing order, the outcome of fetch()
CallOutcomes == {"ok", "TranscriptsDisabled", "NoTranscriptFound", "Exception"}

TrackListings ==
    {<<>>, <<"es">>, <<"en">>, <<"es", "en">>, <<"en-GB", "en-US">>}

TranscriptBehaviours ==
    {[list |-> l, tracks |-> <<>>, fetch |-> "ok"] : l \in CallOutcomes \ {"ok"}}
    \cup
    {[list |-> "ok", tracks |-> ts, fetch |-> f] :
        ts \in TrackListings, f \in CallOutcomes}

\* the text segments fetch() yields for a track
Segments(language_code) ==
    CASE language_code = "en" -> <<"Hello", "world">>
      [] language_code = "es" -> <<"Hola", "mundo">>
      [] language_code = "en-GB" -> <<"Hullo">>
      [] OTHER -> <<>>

\* TranscriptList.find_transcript: the first requested language that has a
\* track; 0 stands for NoTranscriptFound
RECURSIVE find_transcript(_, _)
find_transcript(tracks, language_codes) ==
    IF language_codes = <<>> THEN 0
    ELSE IF \E k \in 1..Len(tracks) : tracks[k] = Head(language_codes)
         THEN CHOOSE k \in 1..Len(tracks) :
                  /\ tracks[k] = Head(language_codes)
                  /\ \A j \in 1..(k - 1) : tracks[j] # Head(language_codes)
         ELSE find_transcript(tracks, Tail(language_codes))

select_transcript_mut_first_track(tracks) ==
    IF tracks # <<>> THEN [raised |-> FALSE, exc |-> None, track |-> 1]
    ELSE [raised |-> TRUE, exc |-> "StopIteration", track |-> 0]

\* lines 200-210: the English variants first, else the first track of the
\* listing; next() on an empty listing raises StopIteration
select_transcript(tracks) ==
    LET k == find_transcript(tracks, <<"en", "en-US", "en-GB">>)
    IN  IF k # 0 THEN [raised |-> FALSE, exc |-> None, track |-> k]
        ELSE IF tracks # <<>> THEN [raised |-> FALSE, exc |-> None, track |-> 1]
        ELSE [raised |-> TRUE, exc |-> "StopIteration", track |-> 0]

\* lines 196-216: the body of the try statement
retrieve_transcript(t) ==
    IF t.list # "ok"
    THEN [raised |-> TRUE, exc |-> t.list, transcript_text |-> ""]
    ELSE LET selected == select_transcript(t.tracks)
         IN  IF selected.raised
             THEN [raised |-> TRUE, exc |-> selected.exc, transcript_text |-> ""]
             ELSE IF t.fetch # "ok"
             THEN [raised |-> TRUE, exc |-> t.fetch, transcript_text |-> ""]
             ELSE [raised |-> FALSE, exc |-> None,
                   transcript_text |-> Join(Segments(t.tracks[selected.track]), " ")]

\* lines 218-226: every handler ends in continue; TranscriptsDisabled,
\* NoTranscriptFound and StopIteration are all subclasses of Exception
handled_by_continue_mut_only_named(exception) ==
    exception \in {"TranscriptsDisabled", "NoTranscriptFound"}

handled_by_continue_mut_no_stopiteration(exception) ==
    exception \in {"TranscriptsDisabled", "NoTranscriptFound", "Exception"}

handled_by_continue(exception) ==
    exception \in {"TranscriptsDisabled", "NoTranscriptFound",
                   "StopIteration", "Exception"}

\* line 228: results_data.append(...)
append_record_mut_prepend(results, record) == <<record>> \o results

append_record_mut_twice(results, record) == results \o <<record, record>>

append_record(results, record) == Append(results, record)

\* lines 170-179: parse the input, default the sort, ask the search library
SearchStep(kw, lim) ==
    /\ pc = "idle"
    /\     LET p == parse_youtube_search_input(kw)
           IN  /\ keyword' = kw
               /\ limit' = lim
               /\ IF p.raised
                  THEN /\ pc' = "raised"
                       /\ exc' = "ValueError"
                       /\ UNCHANGED <<search_query, sort_by, calls>>
                  ELSE /\ search_query' = p.search_query
                       /\ sort_by' = default_sort_by(p.sort_by)
                       /\ calls' = Append(calls,
                              get_search_call(p.search_query, lim,
                                              default_sort_by(p.sort_by)))
                       /\ pc' = "client"
                       /\ exc' = exc
    /\ UNCHANGED svc_vars
    /\ UNCHANGED <<decoded, parsed, transcript_api, video, videos_processed,
                   results_data, cur, log, ret>>

GRT_Search ==
    /\ \E kw \in Keywords, lim \in 1..MaxLimit : SearchStep(kw, lim)
    /\ UNCHANGED legacy

\* the same lines for any input the parser is exercised with
GRT_SearchAny ==
    /\ \E kw \in ParseInputs : SearchStep(kw, MaxLimit)
    /\ UNCHANGED legacy

\* lines 181-183: the accumulators, and api_client or get_transcript_api(),
\* which raises ValueError without proxy credentials in the environment
ClientStep(api_client_given, credentials) ==
    /\ pc = "client"
    /\ videos_processed' = 0
    /\ results_data' = <<>>
    /\     IF api_client_given \/ credentials
           THEN /\ transcript_api' = "api"
                /\ pc' = "iterate"
                /\ exc' = exc
           ELSE /\ transcript_api' = transcript_api
                /\ pc' = "raised"
                /\ exc' = "ValueError"
    /\ UNCHANGED svc_vars
    /\ UNCHANGED <<decoded, parsed, keyword, limit, search_query, sort_by,
                   calls, video, cur, log, ret>>

GRT_Client ==
    /\ \E api_client_given \in BOOLEAN, credentials \in BOOLEAN :
           ClientStep(api_client_given, credentials)
    /\ UNCHANGED legacy

\* line 185: the search generator yields the next video descriptor
YieldStep(shape) ==
    /\ pc = "iterate"
    /\ Len(log) < MaxVideos
    /\ video' = [videoId |-> VideoId(Len(log) + 1), title |-> shape]
    /\ pc' = "process"
    /\ UNCHANGED svc_vars
    /\ UNCHANGED <<decoded, parsed, keyword, limit, search_query, sort_by,
                   calls, transcript_api, videos_processed, results_data,
                   cur, log, exc, ret>>

GRT_Yield ==
    /\ \E shape \in TitleShapes : YieldStep(shape)
    /\ UNCHANGED legacy

\* line 185: the search generator raises (a network or parsing error of the
\* library); nothing in get_recent_transcripts handles it
SearchFailsStep ==
    /\ pc = "iterate"
    /\ pc' = "raised"
    /\ exc' = "SearchError"
    /\ UNCHANGED svc_vars
    /\ UNCHANGED <<decoded, parsed, keyword, limit, search_query, sort_by,
                   calls, transcript_api, video, videos_processed,
                   results_data, cur, log, ret>>

GRT_SearchFails == SearchFailsStep /\ UNCHANGED legacy

\* lines 185, 230: the search generator is exhausted; return results_data
ReturnStep ==
    /\ pc = "iterate"
    /\ pc' = "done"
    /\ ret' = results_data
    /\ UNCHANGED svc_vars
    /\ UNCHANGED <<decoded, parsed, keyword, limit, search_query, sort_by,
                   calls, transcript_api, video, videos_processed,
                   results_data, cur, log, exc>>

GRT_Return == ReturnStep /\ UNCHANGED legacy

\* lines 186-228: one iteration of the loop body
ProcessStep(t) ==
    /\ pc = "process"
    /\     LET video_id == video.videoId
               titled == extract_title(video)
               fetched == retrieve_transcript(t)
           IN  IF titled.raised
               THEN /\ pc' = "raised"
                    /\ exc' = titled.exc
                    /\ UNCHANGED <<videos_processed, results_data, cur, log>>
               ELSE /\ videos_processed' = videos_processed + 1
                    /\ cur' = [video_id |-> video_id, list |-> t.list,
                               tracks |-> t.tracks, fetch |-> t.fetch]
                    /\ log' = Append(log,
                           [video_id |-> video_id,
                            failed_at |->
                                IF t.list # "ok" THEN "list"
                                ELSE IF t.tracks = <<>> THEN "select"
                                ELSE IF t.fetch # "ok" THEN "fetch"
                                ELSE None])
                    /\ IF ~fetched.raised
                       THEN /\ results_data' = append_record(results_data,
                                   [video_id |-> video_id,
                                    title |-> titled.title,
                                    transcript |-> fetched.transcript_text])
                            /\ pc' = "iterate"
                            /\ exc' = exc
                       ELSE IF handled_by_continue(fetched.exc)
                       THEN /\ results_data' = results_data
                            /\ pc' = "iterate"
                            /\ exc' = exc
                       ELSE /\ results_data' = results_data
                            /\ pc' = "raised"
                            /\ exc' = fetched.exc
    /\ UNCHANGED svc_vars
    /\ UNCHANGED <<decoded, parsed, keyword, limit, search_query, sort_by,
                   calls, transcript_api, video, ret>>

GRT_Process ==
    /\ \E t \in TranscriptBehaviours : ProcessStep(t)
    /\ UNCHANGED legacy

Next ==
    \/ GRT_Search
    \/ GRT_Client
    \/ GRT_Yield
    \/ GRT_SearchFails
    \/ GRT_Return
    \/ GRT_Process

Spec == Init /\ [][Next]_vars

\* the parser called directly, and called by get_recent_transcripts up to
\* the search request, on the same inputs
NextSort ==
    \/ CallParse
    \/ GRT_SearchAny

SpecSort == Init /\ [][NextSort]_vars

(***************************************************************************)
(* main.py: the earlier get_recent_transcripts(keyword, limit), run beside *)
(* the one of app.py on the same input, environment and collaborators      *)
(***************************************************************************)
\* inputs app.py does not classify as a URL: a phrase, and a search address
\* without scheme or www prefix
LegacyKeywords ==
    {kw \in Keywords \cup
        {<<"y", "o", "u", "t", "u", "b", "e", ".", "c", "o", "m", "/", "r", "e", "s", "u", "l", "t", "s", "?", "s", "e", "a", "r", "c", "h", "_", "q", "u", "e", "r", "y", "=", "n", "e", "w", "s", "&", "s", "p", "=", "C", "A", "I", "S", "A", "h", "A", "B">>} :
        ~is_url_input(kw)}

\* main.py lines 44-49: the keyword as the query, always by relevance
legacy_search_call(kw, lim) ==
    [fn |-> "get_search", query |-> kw, limit |-> lim,
     sort_by |-> "relevance", results_type |-> "video"]

\* main.py lines 51-53: the accumulators and get_transcript_api()
legacy_client(l, credentials) ==
    IF credentials
    THEN [l EXCEPT !.videos_processed = 0, !.results_data = <<>>,
                   !.transcript_api = "api", !.pc = "iterate"]
    ELSE [l EXCEPT !.videos_processed = 0, !.results_data = <<>>,
                   !.pc = "raised", !.exc = "ValueError"]

\* main.py lines 56-99: one iteration of the loop body, the same statements
\* as lines 186-228 of app.py
legacy_process(l, v, t) ==
    LET titled == extract_title(v)
        fetched == retrieve_transcript(t)
    IN  IF titled.raised
        THEN [l EXCEPT !.pc = "raised", !.exc = titled.exc]
        ELSE IF ~fetched.raised
        THEN [l EXCEPT !.videos_processed = @ + 1,
                       !.results_data = append_record(@,
                           [video_id |-> v.videoId,
                            title |-> titled.title,
                            transcript |-> fetched.transcript_text]),
                       !.pc = "iterate"]
        ELSE IF handled_by_continue(fetched.exc)
        THEN [l EXCEPT !.videos_processed = @ + 1, !.pc = "iterate"]
        ELSE [l EXCEPT !.videos_processed = @ + 1,
                       !.pc = "raised", !.exc = fetched.exc]

Both_Search ==
    /\ legacy.pc = "idle"
    /\ \E kw \in LegacyKeywords, lim \in 1..MaxLimit :
           /\ SearchStep(kw, lim)
           /\ legacy' = [legacy EXCEPT
                            !.calls = Append(@, legacy_search_call(kw, lim)),
                            !.pc = "client"]

\* app.py is called without api_client, as main.py cannot be given one
Both_Client ==
    /\ legacy.pc = "client"
    /\ \E credentials \in BOOLEAN :
           /\ ClientStep(FALSE, credentials)
           /\ legacy' = legacy_client(legacy, credentials)

Both_Yield ==
    /\ legacy.pc = "iterate"
    /\ \E shape \in TitleShapes : YieldStep(shape)
    /\ legacy' = [legacy EXCEPT !.pc = "process"]

Both_SearchFails ==
    /\ legacy.pc = "iterate"
    /\ SearchFailsStep
    /\ legacy' = [legacy EXCEPT !.pc = "raised", !.exc = "SearchError"]

Both_Return ==
    /\ legacy.pc = "iterate"
    /\ ReturnStep
    /\ legacy' = [legacy EXCEPT !.pc = "done", !.ret = legacy.results_data]

Both_Process ==
    /\ legacy.pc = "process"
    /\ \E t \in TranscriptBehaviours :
           /\ ProcessStep(t)
           /\ legacy' = legacy_process(legacy, video, t)

NextLegacy ==
    \/ Both_Search
    \/ Both_Client
    \/ Both_Yield
    \/ Both_SearchFails
    \/ Both_Return
    \/ Both_Process

SpecLegacy == Init /\ [][NextLegacy]_vars

(***************************************************************************)
(* generate_newsletter_digest                                              *)
(*                                                                         *)
(* A text that can be 25,000 characters long is kept run-length encoded:   *)
(* a sequence of runs [ch, n], the string ch repeated n >= 1 times.  The   *)
(* runs of a transcript have one-character ch; a literal piece of the      *)
(* prompt is one run with n = 1.                                           *)
(***************************************************************************)
\* line 281: the slice bound of item['transcript'][:25000]
TranscriptLimit == 25000

\* line 251: the default of the parameter model
DefaultModel == "gpt-5-mini-2025-08-07"

\* transcripts around the slice bound
TranscriptTexts ==
    {<<>>,
     <<[ch |-> "a", n |-> 5]>>,
     <<[ch |-> "a", n |-> TranscriptLimit]>>,
     <<[ch |-> "a", n |-> TranscriptLimit - 1], [ch |-> "b", n |-> 2]>>,
     <<[ch |-> "a", n |-> TranscriptLimit + 1]>>,
     <<[ch |-> "a", n |-> 20000], [ch |-> "b", n |-> 20000]>>}

\* the lists json_data: up to MaxItems records of get_recent_transcripts
DigestInputs ==
    UNION {{[i \in 1..n |-> [title |-> TitleText(VideoId(i)),
                             video_id |-> VideoId(i),
                             transcript |-> f[i]]] :
               f \in [1..n -> TranscriptTexts]} : n \in 0..MaxItems}

\* OPENAI_API_KEY: unset, set to the empty string, set to a key
ApiKeys == {None, "", "fake-test-key"}

Models == {DefaultModel, "gpt-4o-custom"}

\* what the generation service does: the call raises, the response has no
\* choice, the content is None, the empty string, or a text
ServiceOutcomes ==
    {"raises", "no_choices", "content_none", "content_empty", "content_text"}

\* lines 267, 390: not api_key
credential_missing_mut_none_only(api_key) == api_key = None

credential_missing(api_key) == api_key = None \/ api_key = ""

\* text[:k] of a run-length encoded text
RECURSIVE slice_prefix_mut_one_more(_, _)
slice_prefix_mut_one_more(text, k) ==
    IF text = <<>> \/ k < 0 THEN <<>>
    ELSE IF Head(text).n <= k
         THEN <<Head(text)>> \o slice_prefix_mut_one_more(Tail(text), k - Head(text).n)
         ELSE <<[ch |-> Head(text).ch, n |-> k + 1]>>

RECURSIVE slice_prefix(_, _)
slice_prefix(text, k) ==
    IF text = <<>> \/ k = 0 THEN <<>>
    ELSE IF Head(text).n <= k
         THEN <<Head(text)>> \o slice_prefix(Tail(text), k - Head(text).n)
         ELSE <<[ch |-> Head(text).ch, n |-> k]>>

Literal(str) == <<[ch |-> str, n |-> 1]>>

\* lines 277-281: the four lines appended for item number i
video_block(i, item) ==
    Literal("--- VIDEO " \o ToString(i) \o " ---\n")
    \o Literal("Title: " \o item.title \o "\n")
    \o Literal("Video ID: " \o item.video_id \o "\n")
    \o Literal("Transcript: ")
    \o slice_prefix(item.transcript, TranscriptLimit)
    \o Literal("\n\n")

\* lines 274-281: the loop over enumerate(json_data, 1), from item i on
RECURSIVE context_block(_, _)
context_block(json_data, i) ==
    IF i > Len(json_data) THEN <<>>
    ELSE video_block(i, json_data[i]) \o context_block(json_data, i + 1)

\* lines 284-287
system_prompt ==
    Literal("You are an expert tech newsletter editor. Your goal is to synthesize "
            \o "raw video transcripts into a concise, high-value weekly digest.")

\* lines 290-316: the fixed instructions (abridged here), then the data
user_prompt(context) ==
    Literal("\n    Here are the transcripts from the most recent videos.\n"
            \o "[formatting rules and per-video structure]\n"
            \o "    Data:\n    ")
    \o context
    \o Literal("\n    ")

\* line 321-324: the request sent to chat.completions.create
completion_request(model, prompt) ==
    [model |-> model,
     messages |-> <<[role |-> "system", content |-> system_prompt],
                    [role |-> "user", content |-> prompt]>>]

\* lines 320-331: the try statement around the request; a RuntimeError
\* raised inside it is caught by its own handler and raised again
complete_request(outcome) ==
    CASE outcome = "content_text" ->
             [raised |-> FALSE, exc |-> None, ret |-> "### Title: Test"]
      [] outcome = "content_empty" ->
             [raised |-> FALSE, exc |-> None, ret |-> ""]
      [] OTHER ->
             [raised |-> TRUE, exc |-> "RuntimeError", ret |-> ""]

\* lines 266-316: the credential check, the client, the prompt
GD_Build ==
    /\ pc = "idle"
    /\ \E api_key \in ApiKeys, json_data \in DigestInputs, model \in Models :
           IF credential_missing(api_key)
           THEN /\ digest' = [NoDigest EXCEPT !.api_key = api_key,
                                              !.json_data = json_data,
                                              !.model = model,
                                              !.exc = "ValueError"]
                /\ pc' = "digest_raised"
           ELSE /\ digest' = [NoDigest EXCEPT
                                 !.api_key = api_key,
                                 !.json_data = json_data,
                                 !.model = model,
                                 !.clients = <<api_key>>,
                                 !.user_prompt =
                                     user_prompt(context_block(json_data, 1))]
                /\ pc' = "digest_request"
    /\ UNCHANGED <<decoded, parsed, grt_vars, mail, config, legacy, run>>

\* lines 318-331: the request and what comes of it
GD_Request ==
    /\ pc = "digest_request"
    /\ \E outcome \in ServiceOutcomes :
           LET result == complete_request(outcome)
           IN  /\ digest' = [digest EXCEPT
                                !.requests = Append(@,
                                    completion_request(digest.model,
                                                       digest.user_prompt)),
                                !.outcome = outcome,
                                !.exc = result.exc,
                                !.ret = result.ret]
               /\ pc' = IF result.raised THEN "digest_raised" ELSE "digest_done"
    /\ UNCHANGED <<decoded, parsed, grt_vars, mail, config, legacy, run>>

NextDigest ==
    \/ GD_Build
    \/ GD_Request

SpecDigest == Init /\ [][NextDigest]_vars

(***************************************************************************)
(* markdown_to_email_html, send_newsletter_resend                          *)
(***************************************************************************)
\* line 343: markdown.markdown(md_content, extensions=["nl2br"]) on the
\* bodies used here
markdown(md_content) ==
    CASE md_content = "" -> ""
      [] md_content = "# Hello\n- Item 1" ->
             "<h1>Hello</h1>\n<ul>\n<li>Item 1</li>\n</ul>"
      [] OTHER -> "<p>" \o md_content \o "</p>"

\* lines 345-371: the document shell (head and style abridged here) around
\* the rendered content
markdown_to_email_html(md_content) ==
    "<!DOCTYPE html>\n<html>\n<head>[style]</head>\n<body>\n<div class=container>\n"
    \o markdown(md_content)
    \o "\n<div class=footer>[footer]</div>\n</div>\n</body>\n</html>"

\* RESEND_API_KEY and RESEND_FROM_EMAIL: unset, empty, set
MailKeys == {None, "", "re_fake_key"}

FromAddresses == {None, "", "me@test.com"}

Bodies == {"", "Body", "# Hello\n- Item 1"}

Subjects == {"Subject", "YT DIGEST"}

Recipient(i) == "r" \o ToString(i) \o "@test.com"

RecipientLists == {[i \in 1..n |-> Recipient(i)] : n \in 0..MaxRecipients}

\* what resend.Emails.send does: raises, or returns None, {}, a dict
\* without 'id', a dict with 'id'
MailResponses == {"raises", "none", "empty", "no_id", "id"}

\* line 388: os.getenv("RESEND_FROM_EMAIL", "onboarding@resend.dev")
from_email(from_env) ==
    IF from_env = None THEN "onboarding@resend.dev" ELSE from_env

\* lines 390-396: the two early returns
skip_send_mut_ignore_recipients(api_key, recipients) ==
    credential_missing(api_key)

skip_send(api_key, recipients) ==
    credential_missing(api_key) \/ recipients = <<>>

\* lines 390-396: the warning logged by the check that returns early; the
\* credential is tested before the recipients
skip_warning_mut_recipients_first(api_key, recipients) ==
    IF recipients = <<>> THEN "Skipping email: No recipients provided."
    ELSE IF credential_missing(api_key)
    THEN "Skipping email: RESEND_API_KEY not set."
    ELSE None

skip_warning(api_key, recipients) ==
    IF credential_missing(api_key)
    THEN "Skipping email: RESEND_API_KEY not set."
    ELSE IF recipients = <<>> THEN "Skipping email: No recipients provided."
    ELSE None

\* lines 404-410: params
send_params_mut_first_recipient(sender, recipients, subject, body, html_body) ==
    [from |-> sender, to |-> <<recipients[1]>>, subject |-> subject,
     text |-> body, html |-> html_body]

send_params(sender, recipients, subject, body, html_body) ==
    [from |-> sender, to |-> recipients, subject |-> subject,
     text |-> body, html |-> html_body]

\* lines 413-423: the response test inside the try statement; the
\* RuntimeError of line 420 is caught at 421 and raised again at 423
delivery_mut_any_response(response) ==
    IF response \in {"id", "no_id"}
    THEN [raised |-> FALSE, exc |-> None]
    ELSE [raised |-> TRUE, exc |-> "RuntimeError"]

delivery(response) ==
    IF response = "id"
    THEN [raised |-> FALSE, exc |-> None]
    ELSE [raised |-> TRUE, exc |-> "RuntimeError"]

\* lines 385-399: the environment, the two checks, the rendering
SN_Check ==
    /\ pc = "idle"
    /\ \E api_key \in MailKeys, from_env \in FromAddresses, body \in Bodies,
          subject \in Subjects, recipients \in RecipientLists :
           LET called == [NoMail EXCEPT !.api_key = api_key,
                                        !.from_env = from_env,
                                        !.subject = subject,
                                        !.body = body,
                                        !.recipients = recipients]
           IN  IF skip_send(api_key, recipients)
               THEN /\ mail' = [called EXCEPT
                                   !.warning = skip_warning(api_key, recipients)]
                    /\ pc' = "mail_skipped"
               ELSE /\ mail' = [called EXCEPT
                                   !.resend_api_key = api_key,
                                   !.rendered = <<body>>,
                                   !.html_body = markdown_to_email_html(body)]
                    /\ pc' = "mail_send"
    /\ UNCHANGED <<decoded, parsed, grt_vars, digest, config, legacy, run>>

\* lines 401-423: the request and the test of its response
SN_Send ==
    /\ pc = "mail_send"
    /\ \E response \in MailResponses :
           /\ mail' = [mail EXCEPT
                          !.requests = Append(@,
                              send_params(from_email(mail.from_env),
                                          mail.recipients, mail.subject,
                                          mail.body, mail.html_body)),
                          !.response = response,
                          !.exc = delivery(response).exc]
           /\ pc' = IF delivery(response).raised THEN "mail_raised"
                    ELSE "mail_done"
    /\ UNCHANGED <<decoded, parsed, grt_vars, digest, config, legacy, run>>

NextMail ==
    \/ SN_Check
    \/ SN_Send

SpecMail == Init /\ [][NextMail]_vars

(***************************************************************************)
(* load_email_list_config                                                  *)
(*                                                                         *)
(* The tests import it from app, but src/app.py does not define it; it is  *)
(* modelled from section 4.3 of the specification and from the behaviour   *)
(* src/tests/test_email_list_config.py expects.                            *)
(***************************************************************************)
\* a JSON value of a field: absent, a number, or a string (its characters)
Absent == [type |-> "absent", text |-> <<>>]

Number == [type |-> "number", text |-> <<>>]

Str(chars) == [type |-> "string", text |-> chars]

EmailValues ==
    {Absent, Number, Str(<<" ", " ">>), Str(<<"a", "b">>),
     Str(<<"a", "@", "b">>), Str(<<" ", "c", "@", "d", " ">>)}

UrlValues ==
    {Absent, Number, Str(<<" ">>), Str(<<"u">>), Str(<<" ", "v", " ">>)}

\* the elements of a configuration array: objects, and a bare string
Elements ==
    {[kind |-> "object", email |-> e, search_url |-> u] :
         e \in EmailValues, u \in UrlValues}
    \cup {[kind |-> "string", email |-> Absent, search_url |-> Absent]}

ConfigArrays == UNION {[1..n -> Elements] : n \in 0..MaxEntries}

\* the file: absent, not JSON, a JSON object, or a JSON array
FileContents == {"missing", "invalid_json", "not_array", "array"}

Whitespace == {" ", "\t", "\n", "\r"}

\* str.strip()
RECURSIVE RStrip(_, _)
RStrip(s, chars) ==
    IF s # <<>> /\ s[Len(s)] \in chars
    THEN RStrip(SubSeq(s, 1, Len(s) - 1), chars)
    ELSE s

strip(s) == RStrip(LStrip(s, Whitespace), Whitespace)

\* every element must be an object
all_objects_mut_first_only(elements) ==
    elements = <<>> \/ elements[1].kind = "object"

all_objects(elements) ==
    \A k \in 1..Len(elements) : elements[k].kind = "object"

\* the checks of one element: a non-blank string email with "@", a
\* non-blank string search_url
is_valid_entry_mut_no_at_check(element) ==
    /\ element.email.type = "string"
    /\ strip(element.email.text) # <<>>
    /\ element.search_url.type = "string"
    /\ strip(element.search_url.text) # <<>>

is_valid_entry(element) ==
    /\ element.email.type = "string"
    /\ strip(element.email.text) # <<>>
    /\ Contains(strip(element.email.text), <<"@">>)
    /\ element.search_url.type = "string"
    /\ strip(element.search_url.text) # <<>>

\* the accepted elements in order, both fields trimmed
RECURSIVE validated_entries(_)
validated_entries(elements) ==
    IF elements = <<>> THEN <<>>
    ELSE IF is_valid_entry(Head(elements))
         THEN <<[email |-> strip(Head(elements).email.text),
                 search_url |-> strip(Head(elements).search_url.text)]>>
              \o validated_entries(Tail(elements))
         ELSE validated_entries(Tail(elements))

load_email_list_config(content, elements) ==
    CASE content = "missing" ->
             [raised |-> TRUE, exc |-> "FileNotFoundError", entries |-> <<>>]
      [] content \in {"invalid_json", "not_array"} ->
             [raised |-> TRUE, exc |-> "ValueError", entries |-> <<>>]
      [] OTHER ->
             IF ~all_objects(elements)
             THEN [raised |-> TRUE, exc |-> "ValueError", entries |-> <<>>]
             ELSE [raised |-> FALSE, exc |-> None,
                   entries |-> validated_entries(elements)]

\* a caller loads a configuration file
LoadConfig ==
    /\ pc = "idle"
    /\ \E content \in FileContents,
          elements \in ConfigArrays :
           /\ (content # "array" => elements = <<>>)
           /\ LET loaded == load_email_list_config(content, elements)
              IN  /\ config' = [content |-> content, elements |-> elements,
                                entries |-> loaded.entries, exc |-> loaded.exc]
                  /\ pc' = IF loaded.raised THEN "config_raised"
                           ELSE "config_done"
    /\ UNCHANGED <<decoded, parsed, grt_vars, digest, mail, legacy, run>>

NextConfig == LoadConfig

SpecConfig == Init /\ [][NextConfig]_vars

(***************************************************************************)
(* app.py run as a script: the block under if __name__ == "__main__"       *)
(*                                                                         *)
(* The block has no try statement: an exception of any call ends the       *)
(* script with a traceback and exit status 1; reaching the end of the      *)
(* block ends it with status 0.                                            *)
(***************************************************************************)
\* line 428
KEYWORD == "News"

\* the records a collection returns, without their transcripts: any videos
\* of those the search yielded, in yield order, each with its own title or
\* "Unknown Title"
RECURSIVE RecordsOf(_, _, _)
RecordsOf(chosen, untitled, n) ==
    IF n > MaxVideos THEN <<>>
    ELSE IF n \in chosen
    THEN <<[video_id |-> VideoId(n),
            title |-> IF n \in untitled THEN "Unknown Title"
                      ELSE TitleText(VideoId(n))]>>
         \o RecordsOf(chosen, untitled, n + 1)
    ELSE RecordsOf(chosen, untitled, n + 1)

\* line 431: what get_recent_transcripts(KEYWORD, limit=2) comes to: a list,
\* or the ValueError of get_transcript_api, the search library's error, or
\* the TypeError of a title that is None
CollectOutcomes ==
    {[raised |-> FALSE, exc |-> None, ret |-> RecordsOf(chosen, untitled, 1)] :
        chosen \in SUBSET (1..MaxVideos), untitled \in SUBSET (1..MaxVideos)}
    \cup
    {[raised |-> TRUE, exc |-> e, ret |-> <<>>] :
        e \in {"ValueError", "SearchError", "TypeError"}}

\* lines 435, 441-442: writing a file succeeds or raises OSError
WriteOutcomes == {None, "OSError"}

\* line 438: generate_newsletter_digest returns the digest, or raises
\* ValueError (no OPENAI_API_KEY) or RuntimeError (the service failed)
DigestOutcomes == {None, "ValueError", "RuntimeError"}

NewsletterOf(data) == "Digest of " \o ToString(Len(data)) \o " videos"

\* lines 445-446: the environment
RecipientEnv == {None, "", "me@example.com"}

ResendKeyEnv == {None, "", "re_key"}

\* line 447: the send returns or raises RuntimeError
SendOutcomes == {None, "RuntimeError"}

\* an uncaught exception: traceback, exit status 1
uncaught(r, e) == [r EXCEPT !.exc = e, !.exit_status = 1]

main_vars_unchanged ==
    UNCHANGED <<decoded, parsed, grt_vars, digest, mail, config, legacy>>

\* lines 428-431
Main_Collect ==
    /\ pc = "idle"
    /\ \E outcome \in CollectOutcomes :
           IF outcome.raised
           THEN /\ run' = uncaught([run EXCEPT !.keyword = KEYWORD], outcome.exc)
                /\ pc' = "main_exit"
           ELSE /\ run' = [run EXCEPT !.keyword = KEYWORD,
                                      !.data = outcome.ret,
                                      !.steps = Append(@, "collect")]
                /\ pc' = "main_collected"
    /\ main_vars_unchanged

\* lines 434-435: save_results_to_json logs and raises an OSError again
Main_Save ==
    /\ pc = "main_collected"
    /\ \E outcome \in WriteOutcomes :
           IF outcome # None
           THEN /\ run' = uncaught(run, outcome)
                /\ pc' = "main_exit"
           ELSE /\ run' = [run EXCEPT !.steps = Append(@, "save")]
                /\ pc' = "main_saved"
    /\ main_vars_unchanged

\* line 438: the digest is generated from data, whatever its length
Main_Digest ==
    /\ pc = "main_saved"
    /\ \E outcome \in DigestOutcomes :
           IF outcome # None
           THEN /\ run' = uncaught([run EXCEPT !.digest_calls = Append(@, run.data)],
                                   outcome)
                /\ pc' = "main_exit"
           ELSE /\ run' = [run EXCEPT !.digest_calls = Append(@, run.data),
                                      !.newsletter = NewsletterOf(run.data),
                                      !.steps = Append(@, "digest")]
                /\ pc' = "main_digested"
    /\ main_vars_unchanged

\* lines 440-442
Main_Write ==
    /\ pc = "main_digested"
    /\ \E outcome \in WriteOutcomes :
           IF outcome # None
           THEN /\ run' = uncaught(run, outcome)
                /\ pc' = "main_exit"
           ELSE /\ run' = [run EXCEPT !.steps = Append(@, "write")]
                /\ pc' = "main_written"
    /\ main_vars_unchanged

\* lines 445-447: the mail is sent when both RECIPIENT_EMAIL and
\* RESEND_API_KEY are set and not empty
Main_Send ==
    /\ pc = "main_written"
    /\ \E recipient \in RecipientEnv, api_key \in ResendKeyEnv,
          outcome \in SendOutcomes :
           LET env == [run EXCEPT !.recipient = recipient, !.api_key = api_key]
               sent == [env EXCEPT !.mail_calls = Append(@,
                           [subject |-> "YT DIGEST", body |-> run.newsletter,
                            recipients |-> <<recipient>>])]
           IN  IF recipient \in {None, ""} \/ api_key \in {None, ""}
               THEN /\ outcome = None
                    /\ run' = [env EXCEPT !.exit_status = 0]
               ELSE IF outcome # None
               THEN run' = uncaught(sent, outcome)
               ELSE run' = [sent EXCEPT !.steps = Append(@, "send"),
                                        !.exit_status = 0]
    /\ pc' = "main_exit"
    /\ main_vars_unchanged

NextMain ==
    \/ Main_Collect
    \/ Main_Save
    \/ Main_Digest
    \/ Main_Write
    \/ Main_Send

SpecMain == Init /\ [][NextMain]_vars

(***************************************************************************)
(* Properties of decode_sp_parameter and parse_youtube_search_input        *)
(***************************************************************************)
\* the raw fields of the query string of a URL input, split at '&'
RawFields(search_input) == Split(urlparse(search_input).query, "&")

\* the name and the value of a raw field, before decoding
FieldName(field) ==
    LET i == Find(field, {"="})
    IN  IF i = 0 THEN field ELSE SubSeq(field, 1, i - 1)

FieldValue(field) ==
    LET i == Find(field, {"="})
    IN  IF i = 0 THEN <<>> ELSE SubSeq(field, i + 1, Len(field))

\* url-decoding of a name or value: '+' is a space, %XX is a byte
Decoded(text) == unquote(Replace(text, "+", " "))

\* positions of the fields key=..., and of those with a non-empty value
FieldsNamed(search_input, key) ==
    {k \in 1..Len(RawFields(search_input)) :
        /\ Find(RawFields(search_input)[k], {"="}) # 0
        /\ Decoded(FieldName(RawFields(search_input)[k])) = key}

FilledFieldsNamed(search_input, key) ==
    {k \in FieldsNamed(search_input, key) :
        FieldValue(RawFields(search_input)[k]) # <<>>}

First(positions) == CHOOSE k \in positions : \A j \in positions : k <= j

\* C1: decode_sp_parameter returns a sort order exactly when the token
\* starts with "CA" and has a third character among A, I, M, E, which selects
\* relevance, upload_date, view_count, rating; every other token gives none.
C1_DecodeTable ==
    pc = "decoded" =>
        LET t == decoded.arg
            matches == /\ Len(t) >= 3
                       /\ t[1] = "C" /\ t[2] = "A"
                       /\ t[3] \in {"A", "I", "M", "E"}
        IN  /\ (decoded.ret # None) <=> matches
            /\ matches => decoded.ret = (CASE t[3] = "A" -> "relevance"
                                        [] t[3] = "I" -> "upload_date"
                                        [] t[3] = "M" -> "view_count"
                                        [] t[3] = "E" -> "rating")

C1_Witness ==
    /\ pc = "decoded"
    /\ decoded.arg = <<"C", "A", "M", "S", "A", "h", "A", "B">>
    /\ decoded.ret = "view_count"

\* C4: parse_youtube_search_input never raises; when parsing a
\* URL-classified input fails it returns the raw input and no sort.
C4_ParseNeverRaises ==
    pc = "parsed" =>
        /\ ~parsed.ret.raised
        /\ (parsed.ret.branch = "except" \/ urlparse(parsed.arg).raised) =>
               /\ parsed.ret.search_query = parsed.arg
               /\ parsed.ret.sort_by = None

C4_Witness ==
    /\ pc = "parsed"
    /\ urlparse(parsed.arg).raised
    /\ parsed.ret.branch = "except"
    /\ parsed.ret.search_query = parsed.arg

\* C5: the input is treated as a URL exactly when it contains "://" or
\* starts with "www."; any other input comes back verbatim with no sort.
C5_Classification ==
    pc = "parsed" =>
        LET s == parsed.arg
            looks_like_url ==
                \/ \E i \in 1..(Len(s) - 2) :
                       s[i] = ":" /\ s[i + 1] = "/" /\ s[i + 2] = "/"
                \/ /\ Len(s) >= 4
                   /\ s[1] = "w" /\ s[2] = "w" /\ s[3] = "w" /\ s[4] = "."
        IN  /\ (parsed.ret.branch # "keyword") <=> looks_like_url
            /\ ~looks_like_url => /\ parsed.ret.search_query = s
                                  /\ parsed.ret.sort_by = None

C5_Witness ==
    /\ pc = "parsed"
    /\ parsed.ret.branch = "keyword"
    /\ Contains(parsed.arg, <<"w", "w", "w", ".">>)
    /\ Contains(parsed.arg, <<"s", "e", "a", "r", "c", "h", "_", "q", "u", "e", "r", "y">> \o <<"=">>)
    /\ parsed.ret.search_query = parsed.arg

\* C6 as stated: for a URL input the query is the decoded value of the first
\* search_query parameter whenever that parameter is present, and the whole
\* input only when it is absent.
C6_Original ==
    (pc = "parsed" /\ parsed.ret.branch = "url") =>
        LET present == FieldsNamed(parsed.arg, <<"s", "e", "a", "r", "c", "h", "_", "q", "u", "e", "r", "y">>)
        IN  IF present = {}
            THEN parsed.ret.search_query = parsed.arg
            ELSE parsed.ret.search_query =
                     Decoded(FieldValue(RawFields(parsed.arg)[First(present)]))

\* C6 amended: for a URL input the query is the decoded value of the first
\* search_query parameter that has a non-empty value, and the whole input
\* when no search_query parameter has a non-empty value.
C6_QueryExtraction ==
    (pc = "parsed" /\ parsed.ret.branch = "url") =>
        LET filled == FilledFieldsNamed(parsed.arg, <<"s", "e", "a", "r", "c", "h", "_", "q", "u", "e", "r", "y">>)
        IN  IF filled = {}
            THEN parsed.ret.search_query = parsed.arg
            ELSE parsed.ret.search_query =
                     Decoded(FieldValue(RawFields(parsed.arg)[First(filled)]))

C6_Witness ==
    /\ pc = "parsed"
    /\ parsed.ret.branch = "url"
    /\ FieldsNamed(parsed.arg, <<"s", "e", "a", "r", "c", "h", "_", "q", "u", "e", "r", "y">>) # FilledFieldsNamed(parsed.arg, <<"s", "e", "a", "r", "c", "h", "_", "q", "u", "e", "r", "y">>)
    /\ parsed.ret.search_query = <<"a", " ", "b", "=">>

\* C7 as stated: for a URL input the sort is decode_sp_parameter of the
\* first sp parameter value when sp is present, none when sp is absent or
\* not decodable; an undecodable sp leaves the extracted query alone.
C7_Original ==
    (pc = "parsed" /\ parsed.ret.branch = "url") =>
        LET present == FieldsNamed(parsed.arg, <<"s", "p">>)
        IN  IF present = {}
            THEN parsed.ret.sort_by = None
            ELSE parsed.ret.sort_by =
                     decode_sp_parameter(
                         Decoded(FieldValue(RawFields(parsed.arg)[First(present)])))

\* C7 amended: for a URL input the sort is decode_sp_parameter of the first
\* sp parameter that has a non-empty value, none when there is no such
\* parameter or the decoder returns none; the sp parameter never changes
\* the extracted query.
C7_SortExtraction ==
    (pc = "parsed" /\ parsed.ret.branch = "url") =>
        LET filled == FilledFieldsNamed(parsed.arg, <<"s", "p">>)
            queries == FilledFieldsNamed(parsed.arg, <<"s", "e", "a", "r", "c", "h", "_", "q", "u", "e", "r", "y">>)
        IN  /\ IF filled = {}
               THEN parsed.ret.sort_by = None
               ELSE parsed.ret.sort_by =
                        decode_sp_parameter(
                            Decoded(FieldValue(RawFields(parsed.arg)[First(filled)])))
            /\ parsed.ret.sort_by \in {None, "relevance", "upload_date",
                                     "view_count", "rating"}
            /\ parsed.ret.search_query =
                   IF queries = {} THEN parsed.arg
                   ELSE Decoded(FieldValue(RawFields(parsed.arg)[First(queries)]))

C7_Witness ==
    /\ pc = "parsed"
    /\ parsed.ret.branch = "url"
    /\ Cardinality(FilledFieldsNamed(parsed.arg, <<"s", "p">>)) = 2
    /\ parsed.ret.sort_by = "upload_date"
    /\ parsed.ret.search_query = parsed.arg

(***************************************************************************)
(* Properties of get_recent_transcripts                                    *)
(***************************************************************************)
\* the call has got past the search request
Searched == pc \in {"client", "iterate", "process", "done"}

\* the records collected so far, or returned
Collected == IF pc = "done" THEN ret ELSE results_data

\* positions of the videos whose transcript was retrieved
Retrieved == {k \in 1..Len(log) : log[k].failed_at = None}

\* C2 as stated: get_recent_transcripts returns at most limit entries, even
\* when the search yields more than limit videos.
C2_AtMostLimit ==
    pc = "done" => Len(ret) <= limit

\* C3: a video whose transcript listing, selection or fetch fails has no
\* record in the result, and the failure does not leave the function.
C3_FailedVideoSkipped ==
    /\ \A k \in 1..Len(log) :
           log[k].failed_at # None =>
               \A i \in 1..Len(Collected) :
                   Collected[i].video_id # log[k].video_id
    /\ pc = "raised" =>
           exc \notin {"TranscriptsDisabled", "NoTranscriptFound",
                       "StopIteration", "Exception"}

C3_Witness ==
    /\ pc = "done"
    /\ Len(log) = 2
    /\ log[1].failed_at = "list"
    /\ log[2].failed_at = "select"
    /\ ret = <<>>

C9_UrlUsesGetVideos ==
    (Searched /\ StartsWith(keyword, <<"h", "t", "t", "p", "s", ":", "/", "/", "w", "w", "w", ".", "y", "o", "u", "t", "u", "b", "e", ".", "c", "o", "m", "/", "r", "e", "s", "u", "l", "t", "s", "?">>)) =>
        /\ Len(calls) = 1
        /\ calls[1].fn = "get_videos"
        /\ calls[1].url = keyword
        /\ calls[1].api_endpoint = "https://www.youtube.com/youtubei/v1/search"

\* C10: the returned list is a subsequence of the yielded videos: one record
\* for each video whose transcript was retrieved, in the order of yielding,
\* and nothing for the skipped ones.
C10_Subsequence ==
    /\ Len(Collected) = Cardinality(Retrieved)
    /\ \A i \in 1..Len(Collected) :
           \E k \in Retrieved :
               /\ log[k].video_id = Collected[i].video_id
               /\ Cardinality({j \in Retrieved : j < k}) = i - 1
    /\ \A i \in 1..Len(Collected) : Collected[i].video_id # None

C10_Witness ==
    /\ pc = "done"
    /\ Len(ret) = 2
    /\ ret[1].video_id = VideoId(1)
    /\ ret[2].video_id = VideoId(2)

\* the video processed last had its transcript retrieved
LastRetrieved ==
    /\ cur.video_id # None
    /\ log[Len(log)].video_id = cur.video_id
    /\ log[Len(log)].failed_at = None

\* the language the selection must arrive at: the first of en, en-US, en-GB
\* that the listing has, else the language of the first listed track
PreferredLanguage(tracks) ==
    LET listed == {tracks[k] : k \in 1..Len(tracks)}
    IN  IF "en" \in listed THEN "en"
        ELSE IF "en-US" \in listed THEN "en-US"
        ELSE IF "en-GB" \in listed THEN "en-GB"
        ELSE tracks[1]

\* the segments of a track joined by single spaces
SpokenText(language_code) ==
    CASE language_code = "en" -> "Hello world"
      [] language_code = "es" -> "Hola mundo"
      [] language_code = "en-GB" -> "Hullo"
      [] OTHER -> ""

\* C11: the track is the first of en, en-US, en-GB that exists, else the
\* first track of the listing, and the record's transcript is the
\* space-joined text of the segments of that track only.
C11_TrackSelection ==
    LastRetrieved =>
        /\ Len(Collected) >= 1
        /\ Collected[Len(Collected)].video_id = cur.video_id
        /\ Collected[Len(Collected)].transcript =
               SpokenText(PreferredLanguage(cur.tracks))

C11_Witness ==
    /\ LastRetrieved
    /\ cur.tracks = <<"es", "en">>
    /\ Collected[Len(Collected)].transcript = "Hello world"

\* C12 as stated: whenever the nested title structure of a yielded video is
\* absent in any way, the title is "Unknown Title", the video's transcript
\* is still processed and the collection is not aborted.
C12_UnknownTitle ==
    (video.videoId # None /\ video.title # "ok" /\ pc # "process") =>
        /\ exc # "TypeError"
        /\ Len(log) >= 1
        /\ \E k \in 1..Len(log) :
               /\ log[k].video_id = video.videoId
               /\ log[k].failed_at = None =>
                      \E i \in 1..Len(Collected) :
                          /\ Collected[i].video_id = video.videoId
                          /\ Collected[i].title = "Unknown Title"

(***************************************************************************)
(* Properties of generate_newsletter_digest                                *)
(***************************************************************************)
DigestCalled == pc \in {"digest_request", "digest_done", "digest_raised"}

\* C13: without a generation credential the call fails with ValueError,
\* whatever the input list, and no client is constructed and no request sent.
C13_NoCredential ==
    (DigestCalled /\ digest.api_key \in {None, ""}) =>
        /\ pc = "digest_raised"
        /\ digest.exc = "ValueError"
        /\ digest.clients = <<>>
        /\ digest.requests = <<>>

C13_Witness ==
    /\ pc = "digest_raised"
    /\ digest.api_key = None
    /\ Len(digest.json_data) = 2
    /\ digest.exc = "ValueError"

\* C14 as stated: with a credential, the call fails with RuntimeError when
\* the service call raises or returns empty content, and returns normally
\* only with non-empty digest text.
C14_GenerationError ==
    (pc \in {"digest_done", "digest_raised"} /\ digest.api_key \notin {None, ""}) =>
        /\ digest.outcome \in {"raises", "no_choices", "content_none",
                               "content_empty"} =>
               pc = "digest_raised" /\ digest.exc = "RuntimeError"
        /\ pc = "digest_done" => digest.ret # ""
        /\ pc = "digest_raised" => digest.exc = "RuntimeError"

\* number of characters of a run-length encoded text
RECURSIVE TextLen(_)
TextLen(text) ==
    IF text = <<>> THEN 0 ELSE Head(text).n + TextLen(Tail(text))

\* p spells the first characters of text
IsPrefix(p, text) ==
    /\ Len(p) <= Len(text)
    /\ \A k \in 1..(Len(p) - 1) : p[k] = text[k]
    /\ Len(p) > 0 => /\ p[Len(p)].ch = text[Len(p)].ch
                     /\ p[Len(p)].n >= 1
                     /\ p[Len(p)].n <= text[Len(p)].n

Min(a, b) == IF a <= b THEN a ELSE b

\* the data part of the prompt: between the instructions and the last line
PromptData == SubSeq(digest.user_prompt, 2, Len(digest.user_prompt) - 1)

\* where the block of item i starts in the data, and where it ends
BlockStart(i) ==
    CHOOSE k \in 0..Len(PromptData) :
        \/ /\ k > 0
           /\ PromptData[k] = [ch |-> "--- VIDEO " \o ToString(i) \o " ---\n",
                               n |-> 1]
           /\ \A j \in 1..(k - 1) : PromptData[j] # PromptData[k]
        \/ /\ k = 0
           /\ \A j \in 1..Len(PromptData) :
                  PromptData[j] # [ch |-> "--- VIDEO " \o ToString(i) \o " ---\n",
                                   n |-> 1]

BlockEnd(i) ==
    IF i = Len(digest.json_data) THEN Len(PromptData) ELSE BlockStart(i + 1) - 1

\* C15: the prompt has exactly one labeled block per transcript, in input
\* order, numbered from 1, with the item's title, its video id and the first
\* min(length, 25000) characters of its transcript.
C15_PromptBlocks ==
    (DigestCalled /\ digest.api_key \notin {None, ""}) =>
        /\ Len(digest.json_data) = 0 => PromptData = <<>>
        /\ Len(digest.json_data) > 0 => BlockStart(1) = 1
        /\ \A i \in 1..Len(digest.json_data) :
               LET item == digest.json_data[i]
                   first == BlockStart(i)
                   last == BlockEnd(i)
                   shown == SubSeq(PromptData, first + 4, last - 1)
               IN  /\ first > 0
                   /\ last >= first + 4
                   /\ PromptData[first + 1] =
                          [ch |-> "Title: " \o item.title \o "\n", n |-> 1]
                   /\ PromptData[first + 2] =
                          [ch |-> "Video ID: " \o item.video_id \o "\n", n |-> 1]
                   /\ PromptData[first + 3] = [ch |-> "Transcript: ", n |-> 1]
                   /\ PromptData[last] = [ch |-> "\n\n", n |-> 1]
                   /\ IsPrefix(shown, item.transcript)
                   /\ TextLen(shown) = Min(TextLen(item.transcript), 25000)
                   /\ TextLen(shown) <= 25000

C15_Witness ==
    /\ pc = "digest_request"
    /\ Len(digest.json_data) = 2
    /\ digest.json_data[1].transcript = <<[ch |-> "a", n |-> 5]>>
    /\ digest.json_data[2].transcript =
           <<[ch |-> "a", n |-> 24999], [ch |-> "b", n |-> 2]>>
    /\ SubSeq(PromptData, 11, 12) =
           <<[ch |-> "a", n |-> 24999], [ch |-> "b", n |-> 1]>>

(***************************************************************************)
(* Properties of send_newsletter_resend                                    *)
(***************************************************************************)
MailCalled == pc \in {"mail_skipped", "mail_send", "mail_done", "mail_raised"}

SendAttempted == pc \in {"mail_done", "mail_raised"}

\* C16: without a mail credential, or with no recipient, the call returns
\* normally without raising and without calling the mail service.
C16_NoOp ==
    (MailCalled /\ (mail.api_key \in {None, ""} \/ Len(mail.recipients) = 0)) =>
        /\ pc = "mail_skipped"
        /\ mail.exc = None
        /\ mail.requests = <<>>

C16_Witness ==
    /\ pc = "mail_skipped"
    /\ mail.api_key = "re_fake_key"
    /\ mail.recipients = <<>>
    /\ mail.requests = <<>>

\* C17: with a credential and at least one recipient, one mail request is
\* made: to the full recipients list, text the body verbatim, html the
\* rendering of the body, the given subject, from RESEND_FROM_EMAIL when
\* set and from onboarding@resend.dev otherwise.
C17_OneRequest ==
    (MailCalled /\ mail.api_key \notin {None, ""} /\ Len(mail.recipients) > 0) =>
        /\ pc # "mail_skipped"
        /\ SendAttempted =>
               /\ Len(mail.requests) = 1
               /\ mail.requests[1].to = mail.recipients
               /\ mail.requests[1].text = mail.body
               /\ mail.requests[1].html = markdown_to_email_html(mail.body)
               /\ mail.requests[1].html # mail.body
               /\ mail.requests[1].subject = mail.subject
               /\ mail.requests[1].from =
                      (IF mail.from_env = None THEN "onboarding@resend.dev"
                       ELSE mail.from_env)

C17_Witness ==
    /\ pc = "mail_done"
    /\ mail.from_env = None
    /\ Len(mail.recipients) = 2
    /\ mail.body = "# Hello\n- Item 1"
    /\ mail.requests[1].from = "onboarding@resend.dev"
    /\ mail.requests[1].to = <<"r1@test.com", "r2@test.com">>

\* C18: an attempted send fails with RuntimeError when the mail service
\* raises or its response is empty or has no 'id'; it returns normally only
\* when the response has an 'id'.
C18_DeliveryError ==
    SendAttempted =>
        /\ mail.response \in {"raises", "none", "empty", "no_id"} =>
               pc = "mail_raised" /\ mail.exc = "RuntimeError"
        /\ pc = "mail_done" => mail.response = "id" /\ mail.exc = None
        /\ pc = "mail_raised" => mail.exc = "RuntimeError"

C18_Witness ==
    /\ pc = "mail_raised"
    /\ mail.response = "no_id"
    /\ mail.exc = "RuntimeError"
    /\ Len(mail.requests) = 1

(***************************************************************************)
(* Properties of load_email_list_config                                    *)
(***************************************************************************)
ConfigLoaded == pc \in {"config_done", "config_raised"}

NonBlank(chars) == \E i \in 1..Len(chars) : chars[i] # " "

\* the element passes the checks of an entry
Passes(element) ==
    /\ element.email.type = "string"
    /\ NonBlank(element.email.text)
    /\ \E i \in 1..Len(element.email.text) : element.email.text[i] = "@"
    /\ element.search_url.type = "string"
    /\ NonBlank(element.search_url.text)

Passing == {k \in 1..Len(config.elements) : Passes(config.elements[k])}

\* trimmed is chars without its leading and trailing blanks
IsTrimOf(trimmed, chars) ==
    \E i \in 1..Len(chars), j \in 1..Len(chars) :
        /\ trimmed = SubSeq(chars, i, j)
        /\ chars[i] # " " /\ chars[j] # " "
        /\ \A k \in 1..Len(chars) : (k < i \/ k > j) => chars[k] = " "

\* C19: for an array of objects the result holds exactly the elements with
\* a non-blank string email containing "@" and a non-blank string
\* search_url (their fields trimmed), in their original order; an invalid
\* element never keeps a later valid one out.
C19_ValidEntries ==
    (ConfigLoaded /\ config.content = "array"
        /\ \A k \in 1..Len(config.elements) : config.elements[k].kind = "object") =>
        /\ pc = "config_done"
        /\ Len(config.entries) = Cardinality(Passing)
        /\ \A k \in Passing :
               LET i == Cardinality({j \in Passing : j <= k})
               IN  /\ IsTrimOf(config.entries[i].email,
                               config.elements[k].email.text)
                   /\ IsTrimOf(config.entries[i].search_url,
                               config.elements[k].search_url.text)

C19_Witness ==
    /\ pc = "config_done"
    /\ Len(config.elements) = 2
    /\ config.elements[1].email = Str(<<"a", "b">>)
    /\ config.entries = <<[email |-> <<"c", "@", "d">>, search_url |-> <<"v">>]>>

\* C20: the load fails with ValueError and returns no entry when the content
\* is not JSON, is not an array, or has an element that is not an object,
\* even next to valid elements.
C20_InvalidFormat ==
    (ConfigLoaded /\ (\/ config.content \in {"invalid_json", "not_array"}
                      \/ /\ config.content = "array"
                         /\ \E k \in 1..Len(config.elements) :
                                config.elements[k].kind # "object")) =>
        /\ pc = "config_raised"
        /\ config.exc = "ValueError"
        /\ config.entries = <<>>

C20_Witness ==
    /\ pc = "config_raised"
    /\ config.exc = "ValueError"
    /\ Len(config.elements) = 2
    /\ Passes(config.elements[1])
    /\ config.elements[2].kind = "string"

(***************************************************************************)
(* Properties of the loop of get_recent_transcripts                        *)
(***************************************************************************)
\* the loop has been entered
InLoop == pc \in {"iterate", "process", "done"} \/ (pc = "raised" /\ transcript_api # None)

\* C25 as stated: every yielded video has its transcript listing requested,
\* in yield order, whatever happened to the videos before it.
C25_EveryVideoListed ==
    /\ \A k \in 1..Len(log) : log[k].video_id = VideoId(k)
    /\ (video.videoId # None /\ pc # "process") =>
           /\ Len(log) >= 1
           /\ log[Len(log)].video_id = video.videoId

C27_EmptyListingSkipped ==
    [][(/\ pc = "process"
        /\ Len(log') = Len(log) + 1
        /\ log'[Len(log')].failed_at = "select")
       => (/\ pc' = "iterate"
           /\ results_data' = results_data
           /\ exc' = None
           /\ cur'.list = "ok"
           /\ cur'.tracks = <<>>)]_vars

C27_Witness ==
    /\ pc = "done"
    /\ Len(log) = 2
    /\ log[1].failed_at = "select"
    /\ log[2].failed_at = None
    /\ Len(ret) = 1
    /\ ret[1].video_id = VideoId(2)

(***************************************************************************)
(* Properties of the sort order                                            *)
(***************************************************************************)
SortOrders == {"relevance", "upload_date", "view_count", "rating"}

\* C28: the parser's sort is one of the four orders or none, and the sort
\* of the search request of get_recent_transcripts is one of the four.
C28_SortDomain ==
    /\ pc = "parsed" => parsed.ret.sort_by \in SortOrders \cup {None}
    /\ pc = "client" =>
           /\ Len(calls) = 1
           /\ calls[1].sort_by \in SortOrders
           /\ sort_by \in SortOrders

C28_Witness ==
    /\ pc = "client"
    /\ calls[1].sort_by = "relevance"
    /\ parse_youtube_search_input(keyword).branch = "url"
    /\ FilledFieldsNamed(keyword, <<"s", "p">>) # {}
    /\ parse_youtube_search_input(keyword).sort_by = None

\* C29: the credential check, then the recipients check, both come before
\* the rendering and before any call of the mail service; an invocation
\* makes at most one request, for the whole recipients list, and none after
\* a failure.
C29_ChecksFirstOneCall ==
    MailCalled =>
        /\ mail.api_key \in {None, ""} =>
               /\ pc = "mail_skipped"
               /\ mail.warning = "Skipping email: RESEND_API_KEY not set."
        /\ (mail.api_key \notin {None, ""} /\ mail.recipients = <<>>) =>
               /\ pc = "mail_skipped"
               /\ mail.warning = "Skipping email: No recipients provided."
        /\ pc = "mail_skipped" =>
               /\ mail.rendered = <<>>
               /\ mail.resend_api_key = None
               /\ mail.requests = <<>>
        /\ pc # "mail_skipped" => mail.warning = None /\ Len(mail.rendered) = 1
        /\ Len(mail.requests) <= 1
        /\ pc = "mail_send" => mail.requests = <<>>
        /\ pc = "mail_raised" => Len(mail.requests) = 1
        /\ \A k \in 1..Len(mail.requests) : mail.requests[k].to = mail.recipients

C29_Witness ==
    /\ pc = "mail_skipped"
    /\ mail.api_key = None
    /\ mail.recipients = <<>>
    /\ mail.warning = "Skipping email: RESEND_API_KEY not set."
    /\ mail.rendered = <<>>

(***************************************************************************)
(* Properties of the error boundary of the components                      *)
(***************************************************************************)
\* what the libraries behind the collaborators raise
LibraryExceptions ==
    {"SearchError", "TranscriptsDisabled", "NoTranscriptFound",
     "StopIteration", "Exception"}

\* C24 as stated: no exception of the search, transcript, generation or mail
\* library leaves get_recent_transcripts, generate_newsletter_digest or
\* send_newsletter_resend: each is a skipped video or one of the component's
\* own errors.
C24_NoRawException ==
    /\ pc = "raised" => exc \notin LibraryExceptions
    /\ pc = "digest_raised" => digest.exc \in {"ValueError", "RuntimeError"}
    /\ pc = "mail_raised" => mail.exc = "RuntimeError"

(***************************************************************************)
(* Properties of the two collectors                                        *)
(***************************************************************************)
\* C30: on any input not classified as a URL the collector of app.py and the
\* one of main.py issue the same search request (the input as the query, the
\* limit, by relevance, videos) and, the collaborators behaving the same,
\* return the same list of records.
C30_SameAsLegacy ==
    /\ legacy.pc = pc
    /\ legacy.calls = calls
    /\ \A k \in 1..Len(calls) :
           calls[k] = [fn |-> "get_search", query |-> keyword, limit |-> limit,
                       sort_by |-> "relevance", results_type |-> "video"]
    /\ pc \in {"iterate", "process", "done"} =>
           /\ legacy.results_data = results_data
           /\ legacy.videos_processed = videos_processed
    /\ legacy.exc = exc
    /\ legacy.ret = ret

C30_Witness ==
    /\ pc = "done"
    /\ keyword[1] = "y"
    /\ calls[1].query = keyword
    /\ Len(ret) = 2
    /\ legacy.pc = "done"
    /\ legacy.ret = ret
    /\ ret[1].title = "Unknown Title"

(***************************************************************************)
(* Properties of the run of the script                                     *)
(***************************************************************************)
\* the call of that name in the main block has returned
Returned(step) == \E k \in 1..Len(run.steps) : run.steps[k] = step

\* the entries the run processes: the one keyword of the block
Entries == IF run.keyword = None THEN <<>> ELSE <<run.keyword>>

\* C21 as stated: when the collection for an entry returns an empty list, no
\* digest is generated and no mail is sent for that entry.
C21_EmptyCollectionSkipped ==
    (Returned("collect") /\ run.data = <<>>) =>
        /\ run.digest_calls = <<>>
        /\ run.mail_calls = <<>>

\* C22 as stated: an exception raised while an entry is processed, in the
\* collection, the generation or the sending, is caught: none ends the run.
C22_EntryExceptionCaught ==
    (pc = "main_exit" /\ Len(Entries) > 0) =>
        run.exc \notin {"ValueError", "SearchError", "TypeError", "RuntimeError"}

\* C23 as stated: the run ends with a non-zero status exactly when there is
\* no usable entry; a failing collection, generation or delivery does not
\* make the status non-zero.
C23_ExitStatus ==
    pc = "main_exit" => (run.exit_status # 0 <=> Entries = <<>>)

====
